---- MODULE Spec2Model ----
(***************************************************************************)
(* The Poru orchestration layer (class Poru): node registry and selector,  *)
(* player registry, packet router, resolve/decode service and activation.  *)
(* Every public method is synchronous up to its first REST call, and the   *)
(* host runs handlers one at a time, so each method is one atomic action.  *)
(***************************************************************************)
EXTENDS Integers, Sequences, FiniteSets, TLC

VARIABLES
    options,      \* this.options: library, send, plugins
    _nodes,       \* this._nodes: the configured node descriptors
    nodes,        \* this.nodes: Map name -> Node, in Map iteration order
    handles,      \* every Node object constructed so far, by identity
    players,      \* this.players: Map guildId -> Player (0 = no entry)
    playerObjs,   \* every Player object constructed so far, by identity
    userId,       \* this.userId
    isActivated,  \* this.isActivated
    send,         \* this.send
    listeners,    \* raw-packet handlers subscribed on host clients
    pluginLoads,  \* plugin.load(this) calls, in call order
    live,         \* history: names added and not removed since
    op            \* the last call: its name, arguments and outcome

vars == <<options, _nodes, nodes, handles, players, playerObjs, userId,
          isActivated, send, listeners, pluginLoads, live, op>>

(***************************************************************************)
(* Bounds of the model.                                                    *)
(***************************************************************************)
MaxHandles == 2    \* Node objects constructed in one run
MaxPlayers == 2    \* Player objects constructed in one run
MaxPenalty == 1    \* penalties range over 0..MaxPenalty

Null == "null"
NoPlayer == 0

Guilds == {"g1", "g2"}
UserIds == {"u1", "u2"}
Clients == {[user |-> [id |-> "u1"]], [user |-> [id |-> "u2"]]}

\* interface NodeGroup: name and optional region list
Descriptors ==
    { [name |-> "n1", region |-> <<"EU">>],
      [name |-> "n2", region |-> <<"eu">>] }

NodeNames == {"n1", "n2"}
Regions == {"eu", "EU", "us"}
\* options.region of a connection request; Null for none
ConnRegions == {Null, "EU", "us"}

\* node.stats.cpu; NoCpu stands for an absent cpu entry
NoCpu == [systemLoad |-> 0, cores |-> 0]
\* the statistics a connected Node reports: an idle Node, or a loaded one
\* with cpu statistics
Stats ==
    {[penalties |-> p,
      cpu |-> IF p = 0 THEN NoCpu ELSE [systemLoad |-> p, cores |-> 2]] :
        p \in 0..MaxPenalty}

\* the constructor's arguments: options and the configured node descriptors
Configs ==
    { [library |-> "", send |-> Null, plugins |-> <<"p1", "p2">>,
       nodes |-> <<[name |-> "n1", region |-> <<"EU">>]>>],
      [library |-> "other", send |-> Null, plugins |-> <<"p1">>, nodes |-> <<>>],
      [library |-> "other", send |-> "optionsSend", plugins |-> <<"p1">>, nodes |-> <<>>] }

(***************************************************************************)
(* String.prototype.toLowerCase on the region strings of the model.        *)
(***************************************************************************)
toLowerCase(s) == IF s = "EU" THEN "eu" ELSE IF s = "US" THEN "us" ELSE s

Range(s) == {s[i] : i \in 1..Len(s)}

(***************************************************************************)
(* Array.prototype.sort with a comparator key[a] - key[b]: ascending and   *)
(* stable (ECMAScript 2019), written as an insertion sort.                 *)
(***************************************************************************)
RECURSIVE InsertByKey(_, _, _)
InsertByKey(x, s, key) ==
    IF s = <<>> THEN <<x>>
    ELSE IF key[x] < key[Head(s)] THEN <<x>> \o s
    ELSE <<Head(s)>> \o InsertByKey(x, Tail(s), key)

RECURSIVE sort(_, _)
sort(s, key) ==
    IF s = <<>> THEN <<>>
    ELSE InsertByKey(s[Len(s)], sort(SubSeq(s, 1, Len(s) - 1), key), key)

RECURSIVE filter(_, _)
filter(s, keep) ==
    IF s = <<>> THEN <<>>
    ELSE IF Head(s) \in keep THEN <<Head(s)>> \o filter(Tail(s), keep)
    ELSE filter(Tail(s), keep)

(***************************************************************************)
(* The Node Registry: a Map, kept as the sequence of its entries in        *)
(* iteration order.  Map.set on a present key keeps the key's position.    *)
(***************************************************************************)
MapHas(m, k) == \E i \in 1..Len(m) : m[i].name = k
MapGet(m, k) == IF MapHas(m, k) THEN m[CHOOSE i \in 1..Len(m) : m[i].name = k].h ELSE 0
MapSet(m, k, h) ==
    IF MapHas(m, k)
    THEN [i \in 1..Len(m) |-> IF m[i].name = k THEN [name |-> k, h |-> h] ELSE m[i]]
    ELSE Append(m, [name |-> k, h |-> h])
MapDelete(m, k) == filter(m, {e \in Range(m) : e.name # k})
MapValues(m) == [i \in 1..Len(m) |-> m[i].h]
MapKeys(m) == {m[i].name : i \in 1..Len(m)}

\* new Node(poru, options, poruOptions): not connected, no statistics yet
NewNode(d) ==
    [name |-> d.name, regions |-> d.region, conn |-> "idle",
     penalties |-> 0, cpu |-> NoCpu]

isConnected(hs, h) == hs[h].conn = "connected"
NodeConnect(hs, h) == [hs EXCEPT ![h].conn = "connecting"]
NodeDisconnect(hs, h) == [hs EXCEPT ![h].conn = "closed"]

\* A Node that leaves the registry is never read by this class again: the
\* model drops its statistics and keeps its identity and connection state.
Forget(hs, h) ==
    IF h = 0 THEN hs ELSE [hs EXCEPT ![h].penalties = 0, ![h].cpu = NoCpu]

\* addNode on a registry and object table; the new Node is the last object
AddNodeTo(st, d) ==
    LET h == Len(st.handles) + 1
    IN [nodes |-> MapSet(st.nodes, d.name, h),
        handles |-> NodeConnect(Append(Forget(st.handles, MapGet(st.nodes, d.name)),
                                       NewNode(d)), h)]

\* leastUsedNodes without the isConnected filter
leastUsedNodesOfAll(m, hs) ==
    sort(MapValues(m), [h \in 1..Len(hs) |-> hs[h].penalties])

\* get leastUsedNodes
leastUsedNodesOf(m, hs) ==
    sort(filter(MapValues(m), {h \in 1..Len(hs) : isConnected(hs, h)}),
         [h \in 1..Len(hs) |-> hs[h].penalties])

leastUsedNodes == leastUsedNodesOf(nodes, handles)

\* (systemLoad / cores) * 100, or 0 without cpu statistics; the model's
\* values divide exactly
cpuLoad(n) == IF n.cpu # NoCpu THEN (n.cpu.systemLoad * 100) \div n.cpu.cores ELSE 0

getNodeByRegion(region) ==
    sort(filter(MapValues(nodes),
                {h \in 1..Len(handles) :
                    /\ isConnected(handles, h)
                    /\ toLowerCase(region) \in Range(handles[h].regions)}),
         [h \in 1..Len(handles) |-> cpuLoad(handles[h])])

(***************************************************************************)
(* op, the record of the last call: its name and arguments, the error it   *)
(* threw ("" for none), the object it returned (ret, 0 for none; list for  *)
(* an array), the calls it made on collaborators (Node, Player,            *)
(* Connection), the REST request it issued and, for resolve, its node      *)
(* argument (0 for none).                                                  *)
(***************************************************************************)
NoReq == [method |-> "", url |-> "", body |-> <<>>]
Call(name, arg, arg2) ==
    [name |-> name, arg |-> arg, arg2 |-> arg2, err |-> "", ret |-> 0,
     list |-> <<>>, calls |-> <<>>, req |-> NoReq, node |-> 0]
Throw(name, arg, arg2, err) == [Call(name, arg, arg2) EXCEPT !.err = err]
Return(name, arg, arg2, ret) == [Call(name, arg, arg2) EXCEPT !.ret = ret]

Init ==
    /\ \E c \in Configs :
          /\ options = [library |-> c.library, send |-> c.send, plugins |-> c.plugins]
          /\ _nodes = c.nodes
    /\ nodes = <<>>
    /\ handles = <<>>
    /\ players = [g \in Guilds |-> NoPlayer]
    /\ playerObjs = <<>>
    /\ userId = Null
    /\ isActivated = FALSE
    /\ send = Null
    /\ listeners = <<>>
    /\ pluginLoads = <<>>
    /\ live = {}
    /\ op = Call("constructor", "", "")

addNode(d) ==
    /\ Len(handles) < MaxHandles
    /\ LET st == AddNodeTo([nodes |-> nodes, handles |-> handles], d)
       IN /\ nodes' = st.nodes
          /\ handles' = st.handles
          /\ op' = [Return("addNode", d.name, "", Len(handles) + 1)
                      EXCEPT !.calls = <<[m |-> "connect", on |-> Len(handles) + 1]>>]
    /\ live' = live \cup {d.name}
    /\ UNCHANGED <<options, _nodes, players, playerObjs, userId, isActivated,
                   send, listeners, pluginLoads>>

\* removeNode that disconnects the Node and keeps its registry entry
removeNodeKeepEntry(identifier) ==
    /\ LET node == MapGet(nodes, identifier)
       IN IF node = 0
          THEN UNCHANGED <<nodes, handles>>
          ELSE /\ handles' = NodeDisconnect(handles, node)
               /\ UNCHANGED nodes
    /\ op' = [Call("removeNode", identifier, "")
                EXCEPT !.calls = IF MapGet(nodes, identifier) = 0 THEN <<>>
                                 ELSE <<[m |-> "disconnect",
                                         on |-> MapGet(nodes, identifier)]>>]
    /\ live' = live \ {identifier}
    /\ UNCHANGED <<options, _nodes, players, playerObjs, userId, isActivated,
                   send, listeners, pluginLoads>>

\* removeNode that also drops the Players bound to the removed Node
removeNodeAndPlayers(identifier) ==
    /\ LET node == MapGet(nodes, identifier)
       IN IF node = 0
          THEN UNCHANGED <<nodes, handles, players>>
          ELSE /\ handles' = Forget(NodeDisconnect(handles, node), node)
               /\ nodes' = MapDelete(nodes, identifier)
               /\ players' = [g \in Guilds |->
                                IF players[g] # NoPlayer
                                     /\ playerObjs[players[g]].node = node
                                THEN NoPlayer ELSE players[g]]
    /\ op' = [Call("removeNode", identifier, "")
                EXCEPT !.calls = IF MapGet(nodes, identifier) = 0 THEN <<>>
                                 ELSE <<[m |-> "disconnect",
                                         on |-> MapGet(nodes, identifier)]>>]
    /\ live' = live \ {identifier}
    /\ UNCHANGED <<options, _nodes, playerObjs, userId, isActivated,
                   send, listeners, pluginLoads>>

removeNode(identifier) ==
    /\ LET node == MapGet(nodes, identifier)
       IN IF node = 0
          THEN UNCHANGED <<nodes, handles>>
          ELSE /\ handles' = Forget(NodeDisconnect(handles, node), node)
               /\ nodes' = MapDelete(nodes, identifier)
    /\ op' = [Call("removeNode", identifier, "")
                EXCEPT !.calls = IF MapGet(nodes, identifier) = 0 THEN <<>>
                                 ELSE <<[m |-> "disconnect",
                                         on |-> MapGet(nodes, identifier)]>>]
    /\ live' = live \ {identifier}
    /\ UNCHANGED <<options, _nodes, players, playerObjs, userId, isActivated,
                   send, listeners, pluginLoads>>

(***************************************************************************)
(* The Node's own socket machinery, outside this class: a pending          *)
(* connection opens, and an open one reports new statistics.  Only Nodes   *)
(* in the registry are followed: this class never reads another Node's     *)
(* state again.                                                            *)
(***************************************************************************)
Registered(h) == h \in Range(MapValues(nodes))

Event == Call("event", "", "")

NodeOpen(h) ==
    /\ Registered(h)
    /\ handles[h].conn = "connecting"
    /\ handles' = [handles EXCEPT ![h].conn = "connected"]
    /\ op' = Event
    /\ UNCHANGED <<options, _nodes, nodes, players, playerObjs, userId,
                   isActivated, send, listeners, pluginLoads, live>>

NodeStats(h, st) ==
    /\ Registered(h)
    /\ handles[h].conn = "connected"
    /\ handles' = [handles EXCEPT ![h].penalties = st.penalties, ![h].cpu = st.cpu]
    /\ op' = Event
    /\ UNCHANGED <<options, _nodes, nodes, players, playerObjs, userId,
                   isActivated, send, listeners, pluginLoads, live>>

(***************************************************************************)
(* init(client)                                                            *)
(***************************************************************************)
RECURSIVE AddNodes(_, _)
AddNodes(st, ds) ==
    IF ds = <<>> THEN st ELSE AddNodes(AddNodeTo(st, Head(ds)), Tail(ds))

\* the event each library's adapter subscribes packetUpdate to
RawEvent(library) ==
    CASE library = "discord.js" -> "raw"
      [] library = "eris" -> "rawWS"
      [] library = "oceanic" -> "packet"
      [] OTHER -> ""

initBody(client) ==
    LET st == AddNodes([nodes |-> nodes, handles |-> handles], _nodes)
        library == IF options.library = "" THEN "discord.js" ELSE options.library
    IN /\ Len(handles) + Len(_nodes) <= MaxHandles
       /\ userId' = client.user.id
       /\ nodes' = st.nodes
       /\ handles' = st.handles
       /\ live' = live \cup {_nodes[i].name : i \in 1..Len(_nodes)}
       /\ isActivated' = TRUE
       /\ pluginLoads' = pluginLoads \o options.plugins
       /\ options' = [options EXCEPT !.library = library]
       /\ IF library = "other"
          THEN IF send = Null
               THEN /\ op' = Throw("init", client.user.id, "", "MissingSendFunction")
                    /\ UNCHANGED <<send, listeners>>
               ELSE /\ send' = options.send
                    /\ op' = Call("init", client.user.id, "")
                    /\ UNCHANGED listeners
          ELSE /\ send' = library
               /\ listeners' = Append(listeners,
                                      [client |-> client.user.id, event |-> RawEvent(library)])
               /\ op' = Call("init", client.user.id, "")
       /\ UNCHANGED <<_nodes, players, playerObjs>>

\* init without its early return
initAgain(client) == initBody(client)

init(client) ==
    IF isActivated
    THEN /\ op' = Call("init", client.user.id, "")
         /\ UNCHANGED <<options, _nodes, nodes, handles, players, playerObjs,
                        userId, isActivated, send, listeners, pluginLoads, live>>
    ELSE initBody(client)

(***************************************************************************)
(* getNode(identifier = "auto")                                            *)
(***************************************************************************)
\* getNode that returns the Node found without connecting it
getNodeNoConnect(identifier) ==
    /\ IF Len(nodes) = 0
       THEN op' = Throw("getNode", identifier, "", "NodeRegistryEmpty")
       ELSE IF identifier = "auto"
       THEN op' = [Call("getNode", identifier, "") EXCEPT !.list = leastUsedNodes]
       ELSE IF MapGet(nodes, identifier) = 0
       THEN op' = Throw("getNode", identifier, "", "NodeNotFound")
       ELSE op' = Return("getNode", identifier, "", MapGet(nodes, identifier))
    /\ UNCHANGED <<options, _nodes, nodes, handles, players, playerObjs, userId,
                   isActivated, send, listeners, pluginLoads, live>>

getNode(identifier) ==
    /\ IF Len(nodes) = 0
       THEN /\ op' = Throw("getNode", identifier, "", "NodeRegistryEmpty")
            /\ UNCHANGED handles
       ELSE IF identifier = "auto"
       THEN /\ op' = [Call("getNode", identifier, "") EXCEPT !.list = leastUsedNodes]
            /\ UNCHANGED handles
       ELSE LET node == MapGet(nodes, identifier)
            IN IF node = 0
               THEN /\ op' = Throw("getNode", identifier, "", "NodeNotFound")
                    /\ UNCHANGED handles
               ELSE IF ~isConnected(handles, node)
               THEN /\ handles' = NodeConnect(handles, node)
                    /\ op' = [Return("getNode", identifier, "", node)
                                EXCEPT !.calls = <<[m |-> "connect", on |-> node]>>]
               ELSE /\ op' = Return("getNode", identifier, "", node)
                    /\ UNCHANGED handles
    /\ UNCHANGED <<options, _nodes, nodes, players, playerObjs, userId,
                   isActivated, send, listeners, pluginLoads, live>>

(***************************************************************************)
(* createConnection(options) and createPlayer(node, options)               *)
(***************************************************************************)
\* createPlayer that asks the Player to connect before it registers it
createPlayerConnectFirst(node, opts) ==
    LET player == Len(playerObjs) + 1
    IN /\ playerObjs' = Append(playerObjs, [guildId |-> opts.guildId, node |-> node])
       /\ players' = [players EXCEPT ![opts.guildId] = player]
       /\ op' = [Return("createConnection", opts.guildId, opts.region, player)
                   EXCEPT !.calls = <<[m |-> "connect", on |-> player,
                                       registered |-> players[opts.guildId]]>>]

\* new Player(poru, node, options), registered and then asked to connect;
\* the call record keeps what this.players held for the key when connect
\* was called
createPlayer(node, opts) ==
    LET player == Len(playerObjs) + 1
        registry == [players EXCEPT ![opts.guildId] = player]
    IN /\ playerObjs' = Append(playerObjs, [guildId |-> opts.guildId, node |-> node])
       /\ players' = registry
       /\ op' = [Return("createConnection", opts.guildId, opts.region, player)
                   EXCEPT !.calls = <<[m |-> "connect", on |-> player,
                                       registered |-> registry[opts.guildId]]>>]

\* createConnection once the activation guard has passed
selectAndCreate(opts) ==
    IF players[opts.guildId] # NoPlayer
    THEN /\ op' = Return("createConnection", opts.guildId, opts.region,
                         players[opts.guildId])
         /\ UNCHANGED <<players, playerObjs>>
    ELSE IF Len(leastUsedNodes) = 0
    THEN /\ op' = Throw("createConnection", opts.guildId, opts.region,
                        "NoNodesAvailable")
         /\ UNCHANGED <<players, playerObjs>>
    ELSE IF opts.region # Null /\ getNodeByRegion(opts.region) = <<>>
    THEN \* region is undefined: reading region.name throws
         /\ op' = Throw("createConnection", opts.guildId, opts.region, "TypeError")
         /\ UNCHANGED <<players, playerObjs>>
    ELSE LET name == IF opts.region # Null
                           /\ handles[getNodeByRegion(opts.region)[1]].name # ""
                     THEN handles[getNodeByRegion(opts.region)[1]].name
                     ELSE handles[leastUsedNodes[1]].name
             node == MapGet(nodes, name)
         IN IF node = 0
            THEN /\ op' = Throw("createConnection", opts.guildId, opts.region,
                                "NoNodesAvailable")
                 /\ UNCHANGED <<players, playerObjs>>
            ELSE /\ Len(playerObjs) < MaxPlayers
                 /\ createPlayer(node, opts)

\* createConnection without its activation guard
createConnectionUngated(opts) ==
    /\ selectAndCreate(opts)
    /\ UNCHANGED <<options, _nodes, nodes, handles, userId, isActivated, send,
                   listeners, pluginLoads, live>>

\* createConnection that binds an existing Player to the Node it would
\* select for a new one
createConnectionRebind(opts) ==
    /\ IF isActivated /\ players[opts.guildId] # NoPlayer /\ Len(leastUsedNodes) > 0
       THEN /\ playerObjs' = [playerObjs EXCEPT
                                ![players[opts.guildId]].node = leastUsedNodes[1]]
            /\ op' = Return("createConnection", opts.guildId, opts.region,
                            players[opts.guildId])
            /\ UNCHANGED players
       ELSE IF ~isActivated
       THEN /\ op' = Throw("createConnection", opts.guildId, opts.region, "NotActivated")
            /\ UNCHANGED <<players, playerObjs>>
       ELSE selectAndCreate(opts)
    /\ UNCHANGED <<options, _nodes, nodes, handles, userId, isActivated, send,
                   listeners, pluginLoads, live>>

\* createConnection that selects by region before it tests for connected
\* Nodes
createConnectionRegionFirst(opts) ==
    /\ IF ~isActivated
       THEN /\ op' = Throw("createConnection", opts.guildId, opts.region, "NotActivated")
            /\ UNCHANGED <<players, playerObjs>>
       ELSE IF players[opts.guildId] = NoPlayer /\ opts.region # Null
                 /\ getNodeByRegion(opts.region) = <<>>
       THEN /\ op' = Throw("createConnection", opts.guildId, opts.region, "TypeError")
            /\ UNCHANGED <<players, playerObjs>>
       ELSE selectAndCreate(opts)
    /\ UNCHANGED <<options, _nodes, nodes, handles, userId, isActivated, send,
                   listeners, pluginLoads, live>>

createConnection(opts) ==
    /\ IF ~isActivated
       THEN /\ op' = Throw("createConnection", opts.guildId, opts.region, "NotActivated")
            /\ UNCHANGED <<players, playerObjs>>
       ELSE selectAndCreate(opts)
    /\ UNCHANGED <<options, _nodes, nodes, handles, userId, isActivated, send,
                   listeners, pluginLoads, live>>

(***************************************************************************)
(* removeConnection(guildId).  Player.destroy belongs to the Player: it    *)
(* may or may not delete the Player's own entry from poru.players, and the *)
(* call record says which it did.  A Player without an entry is out of     *)
(* this class's reach: the model keeps its identity and drops its fields.  *)
(***************************************************************************)
Gone == [guildId |-> "", node |-> 0]

PlayerDestroy(player, deregister) ==
    IF deregister
    THEN /\ players' = [players EXCEPT ![playerObjs[player].guildId] = NoPlayer]
         /\ playerObjs' = [playerObjs EXCEPT ![player] = Gone]
    ELSE UNCHANGED <<players, playerObjs>>

\* removeConnection that deletes the Player's entry itself
removeConnectionAndDelete(guildId, deregister) ==
    /\ IF players[guildId] = NoPlayer
       THEN /\ ~deregister
            /\ op' = Call("removeConnection", guildId, "")
            /\ UNCHANGED <<players, playerObjs>>
       ELSE /\ PlayerDestroy(players[guildId], TRUE)
            /\ op' = [Call("removeConnection", guildId, "")
                        EXCEPT !.calls = <<[m |-> "destroy", on |-> players[guildId],
                                            deregisters |-> deregister]>>]
    /\ UNCHANGED <<options, _nodes, nodes, handles, userId,
                   isActivated, send, listeners, pluginLoads, live>>

removeConnection(guildId, deregister) ==
    /\ IF players[guildId] = NoPlayer
       THEN /\ ~deregister
            /\ op' = Call("removeConnection", guildId, "")
            /\ UNCHANGED <<players, playerObjs>>
       ELSE /\ PlayerDestroy(players[guildId], deregister)
            /\ op' = [Call("removeConnection", guildId, "")
                        EXCEPT !.calls = <<[m |-> "destroy", on |-> players[guildId],
                                            deregisters |-> deregister]>>]
    /\ UNCHANGED <<options, _nodes, nodes, handles, userId,
                   isActivated, send, listeners, pluginLoads, live>>

(***************************************************************************)
(* packetUpdate(packet)                                                    *)
(***************************************************************************)
Packets ==
    {[t |-> "GUILD_CREATE", d |-> [guild_id |-> "g1", user_id |-> Null]]}
    \cup {[t |-> "VOICE_SERVER_UPDATE", d |-> [guild_id |-> g, user_id |-> Null]] :
            g \in Guilds}
    \cup {[t |-> "VOICE_STATE_UPDATE", d |-> [guild_id |-> "g1", user_id |-> u]] :
            u \in UserIds}

\* packetUpdate without the user id comparison
packetUpdateAnyUser(packet) ==
    LET player == players[packet.d.guild_id]
        call == [Call("packetUpdate", packet.t, packet.d.guild_id)
                    EXCEPT !.list = <<packet.d.user_id>>]
    IN /\ IF packet.t \notin {"VOICE_STATE_UPDATE", "VOICE_SERVER_UPDATE"}
          THEN op' = call
          ELSE IF player = NoPlayer
          THEN op' = call
          ELSE IF packet.t = "VOICE_SERVER_UPDATE"
          THEN op' = [call EXCEPT !.calls = <<[m |-> "setServersUpdate", on |-> player]>>]
          ELSE op' = [call EXCEPT !.calls = <<[m |-> "setStateUpdate", on |-> player]>>]
       /\ UNCHANGED <<options, _nodes, nodes, handles, players, playerObjs, userId,
                      isActivated, send, listeners, pluginLoads, live>>

packetUpdate(packet) ==
    LET player == players[packet.d.guild_id]
        call == [Call("packetUpdate", packet.t, packet.d.guild_id)
                    EXCEPT !.list = <<packet.d.user_id>>]
    IN /\ IF packet.t \notin {"VOICE_STATE_UPDATE", "VOICE_SERVER_UPDATE"}
          THEN op' = call
          ELSE IF player = NoPlayer
          THEN op' = call
          ELSE IF packet.t = "VOICE_SERVER_UPDATE"
          THEN op' = [call EXCEPT !.calls = <<[m |-> "setServersUpdate", on |-> player]>>]
          ELSE IF packet.d.user_id # userId
          THEN op' = call
          ELSE op' = [call EXCEPT !.calls = <<[m |-> "setStateUpdate", on |-> player]>>]
       /\ UNCHANGED <<options, _nodes, nodes, handles, players, playerObjs, userId,
                      isActivated, send, listeners, pluginLoads, live>>

(***************************************************************************)
(* resolve, decodeTrack, decodeTracks, getLavalinkInfo, getLavalinkStatus: *)
(* each issues at most one REST request on a Node and changes nothing.     *)
(***************************************************************************)
StartsWith(s, prefix) ==
    Len(s) >= Len(prefix) /\ SubSeq(s, 1, Len(prefix)) = prefix

\* /^https?:\/\//.test(query)
IsUrl(query) == StartsWith(query, "http://") \/ StartsWith(query, "https://")

\* encodeURIComponent: the characters it escapes, among those of the model
encodeChar(c) ==
    CASE c = ":" -> "%3A"
      [] c = "/" -> "%2F"
      [] c = " " -> "%20"
      [] c = "=" -> "%3D"
      [] c = "%" -> "%25"
      [] OTHER -> c

RECURSIVE encodeFrom(_, _)
encodeFrom(s, i) ==
    IF i > Len(s) THEN "" ELSE encodeChar(SubSeq(s, i, i)) \o encodeFrom(s, i + 1)

encodeURIComponent(s) == encodeFrom(s, 1)

Queries == {"https://a", "a b"}
Sources == {Null, "scsearch"}
Tracks == {"QA=="}
\* a node argument: 0 for none, or the first Node object constructed
NodeArgs == {h \in 0..1 : h <= Len(handles)}

Get(url) == [method |-> "GET", url |-> url, body |-> <<>>]
Post(url, body) == [method |-> "POST", url |-> url, body |-> body]

Unchanged == UNCHANGED <<options, _nodes, nodes, handles, players, playerObjs, userId,
                         isActivated, send, listeners, pluginLoads, live>>

\* resolve that prefixes the source to every query, URLs included
resolveAlwaysPrefixed(query, source, nodeArg) ==
    LET call == [Call("resolve", query, source) EXCEPT !.node = nodeArg]
        node == IF nodeArg # 0 THEN nodeArg
                ELSE IF Len(leastUsedNodes) > 0 THEN leastUsedNodes[1] ELSE 0
        track == (IF source # Null THEN source ELSE "ytsearch") \o ":" \o query
    IN /\ IF ~isActivated
          THEN op' = [call EXCEPT !.err = "NotActivated"]
          ELSE IF node = 0
          THEN op' = [call EXCEPT !.err = "NoNodesAvailable"]
          ELSE op' = [call EXCEPT !.ret = node,
                        !.req = Get("/v3/loadtracks?identifier="
                                    \o encodeURIComponent(track))]
       /\ Unchanged

resolve(query, source, nodeArg) ==
    LET call == [Call("resolve", query, source) EXCEPT !.node = nodeArg]
        node == IF nodeArg # 0 THEN nodeArg
                ELSE IF Len(leastUsedNodes) > 0 THEN leastUsedNodes[1] ELSE 0
        track == (IF source # Null THEN source ELSE "ytsearch") \o ":" \o query
    IN /\ IF ~isActivated
          THEN op' = [call EXCEPT !.err = "NotActivated"]
          ELSE IF node = 0
          THEN op' = [call EXCEPT !.err = "NoNodesAvailable"]
          ELSE IF IsUrl(query)
          THEN op' = [call EXCEPT !.ret = node,
                        !.req = Get("/v3/loadtracks?identifier="
                                    \o encodeURIComponent(query))]
          ELSE op' = [call EXCEPT !.ret = node,
                        !.req = Get("/v3/loadtracks?identifier="
                                    \o encodeURIComponent(track))]
       /\ Unchanged

decodeTrack(track, nodeArg) ==
    LET call == Call("decodeTrack", track, "")
        node == IF nodeArg # 0 THEN nodeArg
                ELSE IF Len(leastUsedNodes) > 0 THEN leastUsedNodes[1] ELSE 0
    IN /\ IF node = 0
          THEN op' = [call EXCEPT !.err = "TypeError"]
          ELSE op' = [call EXCEPT !.ret = node,
                        !.req = Get("/v3/decodetrack?encodedTrack="
                                    \o encodeURIComponent(track))]
       /\ Unchanged

decodeTracks(tracks, nodeArg) ==
    LET call == [Call("decodeTracks", "", "") EXCEPT !.list = tracks]
    IN /\ IF nodeArg = 0
          THEN op' = [call EXCEPT !.err = "TypeError"]
          ELSE op' = [call EXCEPT !.ret = nodeArg,
                        !.req = Post("/v3/decodetracks", tracks)]
       /\ Unchanged

getLavalinkInfo(name) ==
    LET node == MapGet(nodes, name)
    IN /\ IF node = 0
          THEN op' = Throw("getLavalinkInfo", name, "", "TypeError")
          ELSE op' = [Return("getLavalinkInfo", name, "", node)
                        EXCEPT !.req = Get("/v3/info")]
       /\ Unchanged

getLavalinkStatus(name) ==
    LET node == MapGet(nodes, name)
    IN /\ IF node = 0
          THEN op' = Throw("getLavalinkStatus", name, "", "TypeError")
          ELSE op' = [Return("getLavalinkStatus", name, "", node)
                        EXCEPT !.req = Get("/v3/stats")]
       /\ Unchanged

Next ==
    \/ \E c \in Clients : init(c)
    \/ \E d \in Descriptors : addNode(d)
    \/ \E n \in NodeNames : removeNode(n)
    \/ \E n \in NodeNames \cup {"auto"} : getNode(n)
    \/ \E g \in Guilds, r \in ConnRegions : createConnection([guildId |-> g, region |-> r])
    \/ \E g \in Guilds, b \in BOOLEAN : removeConnection(g, b)
    \/ \E packet \in Packets : packetUpdate(packet)
    \/ \E q \in Queries, src \in Sources, n \in NodeArgs : resolve(q, src, n)
    \/ \E t \in Tracks, n \in NodeArgs : decodeTrack(t, n)
    \/ \E t \in Tracks, n \in NodeArgs : decodeTracks(<<t>>, n)
    \/ getLavalinkInfo("n1")
    \/ getLavalinkStatus("n1")
    \/ \E h \in 1..Len(handles) : NodeOpen(h)
    \/ \E h \in 1..Len(handles), st \in Stats : NodeStats(h, st)

Spec == Init /\ [][Next]_vars

(***************************************************************************)
(* Properties.  A property of a call reads op, which every action sets:    *)
(* op'.name = "f" holds of exactly the steps that are calls of f.          *)
(***************************************************************************)
ConnectedNodes == {h \in Range(MapValues(nodes)) : isConnected(handles, h)}

\* C1: every createConnection call on an activated system with a connected
\* node returns a Player, the one registered for its session key; when a
\* Player was already registered it is that Player and none is constructed.
C1_OnePlayerPerKey ==
    [][op'.name = "createConnection" /\ isActivated /\ ConnectedNodes # {}
        => /\ op'.err = ""
           /\ op'.ret # NoPlayer
           /\ op'.ret = players'[op'.arg]
           /\ players[op'.arg] # NoPlayer
                => op'.ret = players[op'.arg] /\ playerObjs' = playerObjs]_vars

\* C2: an init call that fails with the missing-send-function error leaves
\* the system not activated.
C2_FailedInitNotActivated ==
    op.name = "init" /\ op.err = "MissingSendFunction" => ~isActivated

\* C3: with library "other" and options.send supplied, init completes
\* without error and this.send is the supplied function.
C3_OtherWithSend ==
    op.name = "init" /\ options.library = "other" /\ options.send # Null
        => op.err = "" /\ send = options.send

\* the region list of Node h holds the region, compared case-insensitively
HoldsRegion(h, region) ==
    \E x \in Range(handles[h].regions) : toLowerCase(x) = toLowerCase(region)

NoRegionalMatch(g, region) ==
    /\ region # Null
    /\ isActivated
    /\ players[g] = NoPlayer
    /\ ConnectedNodes # {}
    /\ \A h \in ConnectedNodes : ~HoldsRegion(h, region)

\* C4: createConnection with a region that no connected node matches, on an
\* activated system with a connected node and no Player for the key, creates
\* and registers a Player bound to the first of leastUsedNodes.
C4_RegionFallback ==
    [][op'.name = "createConnection" /\ NoRegionalMatch(op'.arg, op'.arg2)
        => /\ op'.err = ""
           /\ op'.ret # NoPlayer
           /\ players'[op'.arg] = op'.ret
           /\ playerObjs'[op'.ret].node = leastUsedNodes[1]]_vars

Orchestration ==
    {"createConnection", "resolve", "decodeTrack", "decodeTracks", "getNode",
     "addNode", "removeNode", "removeConnection", "getLavalinkInfo",
     "getLavalinkStatus"}

Forwarded(t, g, u) ==
    /\ t \in {"VOICE_SERVER_UPDATE", "VOICE_STATE_UPDATE"}
    /\ players[g] # NoPlayer
    /\ t = "VOICE_STATE_UPDATE" => u = userId

\* C6: packetUpdate calls a Connection setter if and only if the packet is a
\* voice server update, or a voice state update of the system's own user,
\* for a session key with a registered Player; it then makes that one call,
\* on that Player, and otherwise makes none; it never throws.
C6_PacketRouting ==
    op.name = "packetUpdate"
        => /\ op.err = ""
           /\ op.calls =
                IF Forwarded(op.arg, op.arg2, op.list[1])
                THEN <<[m |-> IF op.arg = "VOICE_SERVER_UPDATE"
                              THEN "setServersUpdate" ELSE "setStateUpdate",
                        on |-> players[op.arg2]]>>
                ELSE <<>>

\* a state update of another user was dropped although g1 has a Player
C6_Witness ==
    /\ op.name = "packetUpdate"
    /\ op.arg = "VOICE_STATE_UPDATE"
    /\ players[op.arg2] # NoPlayer
    /\ op.list[1] # userId
    /\ op.calls = <<>>

\* C7: the registry's names are the names added and not removed since, one
\* entry per name; addNode leaves the newly constructed Node under its name;
\* removeNode of an unregistered name throws nothing, disconnects nothing
\* and leaves the registry as it was.
C7_RegistryNames ==
    [][/\ MapKeys(nodes') = live'
       /\ Cardinality(MapKeys(nodes')) = Len(nodes')
       /\ op'.name = "addNode"
            => /\ MapGet(nodes', op'.arg) = op'.ret
               /\ op'.ret = Len(handles')
               /\ op'.ret \notin 1..Len(handles)
       /\ op'.name = "removeNode" /\ ~MapHas(nodes, op'.arg)
            => op'.err = "" /\ op'.calls = <<>> /\ nodes' = nodes /\ handles' = handles]_vars

\* a name was added twice, and then an unregistered name was removed
C7_Witness ==
    /\ Len(handles) = 2
    /\ handles[1].name = handles[2].name
    /\ handles[1].conn # "closed"
    /\ op.name = "removeNode"
    /\ op.calls = <<>>

Position(h) == CHOOSE i \in 1..Len(nodes) : nodes[i].h = h

\* C8: leastUsedNodes holds exactly the connected Nodes of the registry,
\* each once, ascending by penalties, Nodes of equal penalties in registry
\* order.
C8_LeastUsedNodes ==
    LET l == leastUsedNodes
    IN /\ Range(l) = ConnectedNodes
       /\ Len(l) = Cardinality(ConnectedNodes)
       /\ \A i, j \in 1..Len(l) :
            i < j => \/ handles[l[i]].penalties < handles[l[j]].penalties
                     \/ /\ handles[l[i]].penalties = handles[l[j]].penalties
                        /\ Position(l[i]) < Position(l[j])

\* two connected Nodes report the same, non-initial penalties
C8_Witness ==
    /\ Len(leastUsedNodes) = 2
    /\ handles[leastUsedNodes[1]].penalties = handles[leastUsedNodes[2]].penalties
    /\ handles[leastUsedNodes[1]].penalties > 0

\* C9: getNodeByRegion(region) holds exactly the connected Nodes whose
\* region list contains the region, compared case-insensitively, ascending
\* by cpu load.
C9_RegionMatch ==
    \A r \in Regions :
        LET l == getNodeByRegion(r)
        IN /\ Range(l) = {h \in ConnectedNodes : HoldsRegion(h, r)}
           /\ \A i, j \in 1..Len(l) :
                i < j => cpuLoad(handles[l[i]]) <= cpuLoad(handles[l[j]])

\* C10: no step resets isActivated, and no step changes userId once set.
C10_ActivationMonotonic ==
    [][/\ isActivated => isActivated'
       /\ userId # Null => userId' = userId]_vars

\* init was called again, by a client with another user id
C10_Witness ==
    /\ op.name = "init"
    /\ isActivated
    /\ op.arg # userId

\* C11: over any number of init calls every configured plugin is loaded
\* exactly once, in configuration order, as soon as init has run; the
\* raw-packet handler is subscribed at most once; and an init call on an
\* activated system changes neither the Node Registry, send, userId, the
\* plugin loads nor the subscriptions.
C11_InitOnce ==
    [][/\ pluginLoads' = (IF isActivated' THEN options'.plugins ELSE <<>>)
       /\ Len(listeners') <= 1
       /\ op'.name = "init" /\ isActivated
            => UNCHANGED <<nodes, handles, send, userId, pluginLoads, listeners>>]_vars

\* init was called again by another client, after a first call that loaded
\* two plugins, added the configured node and subscribed the handler
C11_Witness ==
    /\ op.name = "init"
    /\ op.arg # userId
    /\ pluginLoads = <<"p1", "p2">>
    /\ Len(listeners) = 1
    /\ Len(nodes) > 0

\* C12: getNode("auto") on a registry with a connected Node returns one Node,
\* the first of leastUsedNodes, and not a collection of Nodes.
C12_AutoReturnsBestNode ==
    op.name = "getNode" /\ op.arg = "auto" /\ Len(leastUsedNodes) > 0
        => /\ op.err = ""
           /\ op.list = <<>>
           /\ op.ret = leastUsedNodes[1]

\* C13: getNode throws NodeRegistryEmpty on an empty registry, whatever the
\* identifier; on a non-empty one, for an identifier other than "auto", it
\* throws NodeNotFound when no Node has that name and otherwise returns the
\* Node registered under it, calling connect on it exactly when it is not
\* connected; the registry is never changed.
C13_GetNode ==
    [][op'.name = "getNode"
        => /\ nodes' = nodes
           /\ IF Len(nodes) = 0
              THEN op'.err = "NodeRegistryEmpty" /\ op'.calls = <<>>
              ELSE IF op'.arg = "auto" THEN TRUE
              ELSE IF ~MapHas(nodes, op'.arg)
              THEN op'.err = "NodeNotFound" /\ op'.calls = <<>>
              ELSE /\ op'.err = ""
                   /\ op'.ret = MapGet(nodes, op'.arg)
                   /\ op'.calls = IF isConnected(handles, op'.ret) THEN <<>>
                                  ELSE <<[m |-> "connect", on |-> op'.ret]>>]_vars

\* getNode reconnected the second of two registered Nodes
C13_Witness ==
    /\ op.name = "getNode"
    /\ Len(nodes) = 2
    /\ op.ret = nodes[2].h
    /\ op.calls = <<[m |-> "connect", on |-> op.ret]>>

\* activated, no Player for session key g, no registered Node connected
NoneConnected(g) ==
    /\ isActivated
    /\ players[g] = NoPlayer
    /\ ConnectedNodes = {}

\* C14: createConnection on an activated system, for a session key without a
\* Player, throws NoNodesAvailable whenever no registered Node is connected,
\* with or without options.region; it then constructs no Player and leaves
\* the Player Registry as it was.
C14_NoNodesAvailable ==
    [][op'.name = "createConnection" /\ NoneConnected(op'.arg)
        => /\ op'.err = "NoNodesAvailable"
           /\ op'.ret = NoPlayer
           /\ players' = players
           /\ playerObjs' = playerObjs]_vars

\* a request with a region was refused while the registered Node was not
\* connected
C14_Witness ==
    /\ op.name = "createConnection"
    /\ op.err = "NoNodesAvailable"
    /\ op.arg2 # Null
    /\ Len(nodes) > 0
    /\ ConnectedNodes = {}

\* the Node createConnection selects for a new Player
SelectedNode(region) ==
    IF region # Null /\ getNodeByRegion(region) # <<>>
    THEN getNodeByRegion(region)[1]
    ELSE leastUsedNodes[1]

\* C15: a Player enters the Player Registry only by a createConnection call
\* for its session key, bound to the first regional match when options.region
\* is set and matches and to the first of leastUsedNodes otherwise; and no
\* step replaces a registered Player by another or changes its Node.
C15_NodeBindingFixed ==
    [][\A g \in Guilds :
          IF players[g] = NoPlayer
          THEN players'[g] # NoPlayer
                 => /\ op'.name = "createConnection" /\ op'.arg = g
                    /\ playerObjs'[players'[g]].guildId = g
                    /\ playerObjs'[players'[g]].node = SelectedNode(op'.arg2)
          ELSE players'[g] # NoPlayer
                 => /\ players'[g] = players[g]
                    /\ playerObjs'[players[g]] = playerObjs[players[g]]]_vars

\* createConnection with another region returned the registered Player,
\* which stays bound to a Node that is no longer the least used
C15_Witness ==
    /\ op.name = "createConnection"
    /\ op.arg2 = "us"
    /\ op.ret # NoPlayer
    /\ Len(leastUsedNodes) = 2
    /\ playerObjs[op.ret].node # leastUsedNodes[1]

\* percent-decoding: every %XX escape stands for its character
decodeEscape(e) ==
    CASE e = "%3A" -> ":"
      [] e = "%2F" -> "/"
      [] e = "%20" -> " "
      [] e = "%3D" -> "="
      [] e = "%25" -> "%"
      [] OTHER -> "?"

RECURSIVE decodeFrom(_, _)
decodeFrom(s, i) ==
    IF i > Len(s) THEN ""
    ELSE IF SubSeq(s, i, i) = "%"
    THEN decodeEscape(SubSeq(s, i, i + 2)) \o decodeFrom(s, i + 3)
    ELSE SubSeq(s, i, i) \o decodeFrom(s, i + 1)

LoadTracks == "/v3/loadtracks?identifier="

\* the identifier of a load-tracks url, percent-decoded
Identifier(url) == decodeFrom(url, Len(LoadTracks) + 1)

\* C16: resolve throws NotActivated, without a request, on a system that is
\* not activated; on an activated one it throws NoNodesAvailable, without a
\* request, when no node is passed and no Node is connected, and otherwise
\* issues one load-tracks GET whose identifier, percent-decoded, is the query
\* itself when the query starts with http:// or https://, and is
\* <source>:<query> otherwise, the source being ytsearch when none is given.
C16_ResolveIdentifier ==
    op.name = "resolve"
        => IF ~isActivated
           THEN op.err = "NotActivated" /\ op.req = NoReq
           ELSE IF op.node = 0 /\ ConnectedNodes = {}
           THEN op.err = "NoNodesAvailable" /\ op.req = NoReq
           ELSE /\ op.err = ""
                /\ op.req.method = "GET"
                /\ StartsWith(op.req.url, LoadTracks)
                /\ Identifier(op.req.url) =
                     IF IsUrl(op.arg) THEN op.arg
                     ELSE (IF op.arg2 = Null THEN "ytsearch" ELSE op.arg2)
                            \o ":" \o op.arg

\* a search without a source was sent with the default source, its colon
\* and space escaped
C16_Witness ==
    /\ op.name = "resolve"
    /\ op.arg = "a b"
    /\ op.arg2 = Null
    /\ op.req.url = "/v3/loadtracks?identifier=ytsearch%3Aa%20b"

\* C17: removeConnection for a session key without a Player throws nothing,
\* calls nothing and changes nothing; for a key with a Player it calls that
\* Player's destroy once and deletes no entry itself: the entry is gone
\* after the call exactly when destroy deregistered the Player, and while it
\* stays, createConnection for the key returns that same Player.
C17_RemoveConnection ==
    [][/\ op'.name = "removeConnection"
            => /\ op'.err = ""
               /\ UNCHANGED <<nodes, handles, isActivated>>
               /\ IF players[op'.arg] = NoPlayer
                  THEN op'.calls = <<>> /\ UNCHANGED <<players, playerObjs>>
                  ELSE /\ Len(op'.calls) = 1
                       /\ op'.calls[1].m = "destroy"
                       /\ op'.calls[1].on = players[op'.arg]
                       /\ IF op'.calls[1].deregisters
                          THEN players' = [players EXCEPT ![op'.arg] = NoPlayer]
                          ELSE UNCHANGED <<players, playerObjs>>
       /\ op'.name = "createConnection" /\ isActivated /\ players[op'.arg] # NoPlayer
            => op'.ret = players[op'.arg] /\ UNCHANGED <<players, playerObjs>>]_vars

\* destroy was called on the Player of g1 and did not deregister it: g1
\* still has its Player
C17_Witness ==
    /\ op.name = "removeConnection"
    /\ op.calls # <<>>
    /\ ~op.calls[1].deregisters
    /\ players[op.arg] = op.calls[1].on

\* C18: when createConnection constructs a Player, connect is called on it
\* once, after the Player was registered: at that call, and when
\* createConnection returns, the Player Registry holds this Player under its
\* session key.
C18_RegisteredBeforeConnect ==
    op.name = "createConnection" /\ op.err = ""
        => /\ players[op.arg] = op.ret
           /\ op.calls # <<>>
                => /\ op.calls[1].m = "connect"
                   /\ op.calls[1].on = op.ret
                   /\ op.calls[1].registered = op.ret
                   /\ Len(op.calls) = 1

\* a second Player was constructed, for another session key, and connected
C18_Witness ==
    /\ op.name = "createConnection"
    /\ op.calls # <<>>
    /\ op.ret = 2
    /\ players["g1"] # NoPlayer
    /\ players["g2"] # NoPlayer

\* the registered Players bound to Node h
BoundTo(h) == {g \in Guilds : players[g] # NoPlayer /\ playerObjs[players[g]].node = h}

\* C19: removeNode changes neither the Player Registry nor any Player: the
\* Players bound to the Node it removes stay registered under their session
\* keys, bound to that Node, which is then disconnected and no longer in the
\* Node Registry.
C19_RemoveNodeKeepsPlayers ==
    [][op'.name = "removeNode"
        => /\ players' = players
           /\ playerObjs' = playerObjs
           /\ LET node == MapGet(nodes, op'.arg)
              IN node # 0
                   => /\ node \notin Range(MapValues(nodes'))
                      /\ handles'[node].conn = "closed"
                      /\ \A g \in BoundTo(node) :
                            /\ players'[g] = players[g]
                            /\ playerObjs'[players'[g]].node = node]_vars

\* removeNode has left a registered Player bound to a Node that is
\* disconnected and not in the Node Registry
C19_Witness ==
    /\ op.name = "removeNode"
    /\ op.calls # <<>>
    /\ BoundTo(op.calls[1].on) # {}
    /\ ~Registered(op.calls[1].on)
    /\ handles[op.calls[1].on].conn = "closed"

\* C20: every Node that was asked to connect and is no longer in the Node
\* Registry has been disconnected; so addNode under a registered name
\* disconnects the Node it replaces.
C20_OrphansDisconnected ==
    \A h \in 1..Len(handles) :
        handles[h].conn # "idle" /\ ~Registered(h) => handles[h].conn = "closed"

====
